---- MODULE Spec2Model ----
(***************************************************************************)
(* Model of GithubPRCommentator: one run of main() posts or overwrites a   *)
(* single comment on the pull request whose head ref is the given ref.     *)
(*                                                                         *)
(* Strings are sequences of symbols.  "O" stands for the literal that      *)
(* opens a marker ("<!-- " followed by the metadata_id "pr_commentator : ")*)
(* "C" for the literal that closes it ("-->"), "n" for the payload of an   *)
(* absent identifier, "q" for the quote delimiting a present identifier,   *)
(* "A" and "B" for identifier characters and "x" for any other text.       *)
(*                                                                         *)
(* github::metadata, GithubAPI::list_comments, GithubAPI::edit_comment and *)
(* GithubAPI::find_pr_for_ref are called by main.rs but their code is not  *)
(* part of the sources at hand; they are modelled from the specification.  *)
(***************************************************************************)
EXTENDS Integers, Sequences, FiniteSets, TLC

VARIABLES
    pc,                    \* position of the run inside main()
    overwrite_mode,        \* Config.overwrite_mode
    overwrite_identifier,  \* Config.overwrite_identifier : Option<String>
    branch_name,           \* Config.branch_name
    comment_text,          \* what the comment source holds
    comment,               \* main: let comment
    prs,                   \* open pull requests as the remote lists them
    remote,                \* comments stored by the remote, creation order
    pr_number,             \* main: let pr_number (a Result while resolving)
    listed,                \* comments returned by list_comments in this run
    maybe_comment_to_override, \* main: Option<u64>
    log,                   \* steps taken by this run and whether each succeeded
    writes,                \* create / edit requests issued by this run
    decodes,               \* calls of get_metadata_from_comment in this run
    last_resp,             \* response to the last write request
    runs,                  \* runs started so far
    succ,                  \* runs finished successfully so far
    remote0,               \* number of comments before the first run
    encoded,               \* codec check: result of add_metadata_to_comment
    decoded                \* codec check: result of get_metadata_from_comment

vars == <<pc, overwrite_mode, overwrite_identifier, branch_name, comment_text,
          comment, prs, remote, pr_number, listed, maybe_comment_to_override,
          log, writes, decodes, last_resp, runs, succ, remote0,
          encoded, decoded>>

----------------------------------------------------------------------------
(* Bounds *)
MaxComments == 3     \* comments on the thread before the first run
MaxRuns == 3         \* invocations of the program on the same PR
MaxPRs == 3          \* length of the open-PR listing (resolution check)
MaxBodyLen == 2      \* length of a body given to the codec (codec check)
MaxIdLen == 1        \* length of an identifier (codec check)

----------------------------------------------------------------------------
(* Option<T> *)
None == [some |-> FALSE, val |-> <<>>]
SomeStr(s) == [some |-> TRUE, val |-> s]
NoneU64 == [some |-> FALSE, val |-> 0]
SomeU64(n) == [some |-> TRUE, val |-> n]

(* Symbols of strings *)
IdChars == {"A", "B"}
Tokens == {"x", "O", "C", "n", "q"} \cup IdChars

SeqsUpTo(S, n) == UNION {[1..k -> S] : k \in 0..n}

----------------------------------------------------------------------------
(* Metadata codec: github::metadata::HtmlCommentMetadataHandler *)

\* serialised form of the identifier inside the marker
Payload(identifier) ==
    IF identifier.some THEN <<"q">> \o identifier.val \o <<"q">> ELSE <<"n">>

\* the marker is appended to the visible body; there is no failure mode
add_metadata_to_comment(body, identifier) ==
    [ok |-> TRUE, val |-> body \o <<"O">> \o Payload(identifier) \o <<"C">>]

LastOpen_First(s) ==
    IF \E i \in 1..Len(s) : s[i] = "O"
    THEN CHOOSE i \in 1..Len(s) :
            s[i] = "O" /\ \A j \in 1..(i-1) : s[j] # "O"
    ELSE 0

\* position of the last marker opening in s, 0 when there is none
LastOpen(s) ==
    IF \E i \in 1..Len(s) : s[i] = "O"
    THEN CHOOSE i \in 1..Len(s) :
            s[i] = "O" /\ \A j \in (i+1)..Len(s) : s[j] # "O"
    ELSE 0

\* position of the first marker closing in s, 0 when there is none
FirstClose(s) ==
    IF \E i \in 1..Len(s) : s[i] = "C"
    THEN CHOOSE i \in 1..Len(s) :
            s[i] = "C" /\ \A j \in 1..(i-1) : s[j] # "C"
    ELSE 0

DecNone == [tag |-> "None", id |-> None]
DecErr == [tag |-> "Err", id |-> None]
DecOk(identifier) == [tag |-> "Ok", id |-> identifier]

\* parse of what stands between the opening and the closing of a marker
ParsePayload(p) ==
    IF p = <<"n">> THEN DecOk(None)
    ELSE IF /\ Len(p) >= 2
            /\ p[1] = "q"
            /\ p[Len(p)] = "q"
            /\ \A i \in 2..(Len(p)-1) : p[i] \in IdChars
         THEN DecOk(SomeStr(SubSeq(p, 2, Len(p) - 1)))
         ELSE DecErr

\* None: no marker; Some(Ok(id)): well-formed marker; Some(Err): malformed
get_metadata_from_comment(body) ==
    LET o == LastOpen(body) IN
    IF o = 0 THEN DecNone
    ELSE LET rest == SubSeq(body, o + 1, Len(body))
             c == FirstClose(rest)
         IN IF c = 0 THEN DecErr ELSE ParsePayload(SubSeq(rest, 1, c - 1))

----------------------------------------------------------------------------
(* API client: src/github.rs *)

Responses ==
    {[sent |-> FALSE, status |-> 0]}
        \cup {[sent |-> TRUE, status |-> s] : s \in {200, 201, 404}}

OkResponse == [sent |-> TRUE, status |-> 200]

StatusCreated == 201
StatusOk == 200

OkU64(n) == [ok |-> TRUE, val |-> n, err |-> "none"]
ErrU64(e) == [ok |-> FALSE, val |-> 0, err |-> e]

FindPr_Last(list, branch) ==
    LET M == {i \in 1..Len(list) : list[i].ref = branch} IN
    IF M = {} THEN NoneU64
    ELSE SomeU64(list[CHOOSE i \in M : \A j \in M : j <= i].number)

\* prs.iter().find(|pr| pr.head.commit_ref == branch_name)
RECURSIVE FindPr(_, _)
FindPr(list, branch) ==
    IF list = <<>> THEN NoneU64
    ELSE IF Head(list).ref = branch THEN SomeU64(Head(list).number)
    ELSE FindPr(Tail(list), branch)

\* received: the request was answered and the answer parsed as the listing
find_pr_for_branch(received, list, branch) ==
    IF ~received THEN ErrU64("transport")
    ELSE LET pr == FindPr(list, branch) IN
         IF pr.some THEN OkU64(pr.val) ELSE ErrU64("Cant find dude")

find_pr_for_ref(received, list, ref_name) ==
    find_pr_for_branch(received, list, ref_name)

comment_AnySuccess(res) == res.sent /\ res.status \in {200, 201}

\* GithubAPI::comment: Ok(()) only when sent and res.status() == 201
comment_result(res) == res.sent /\ res.status = StatusCreated

\* GithubAPI::edit_comment: Ok(()) only when sent and the status is 200
edit_comment_result(res) == res.sent /\ res.status = StatusOk

\* the comments of one PR, in creation order
list_comments(store, pr) == SelectSeq(store, LAMBDA c : c.pr = pr)

\* effect of an accepted create on the remote
RemoteCreate(store, pr, body) ==
    Append(store, [id |-> Len(store) + 1, pr |-> pr, body |-> body])

\* effect of an accepted edit on the remote
RemoteEdit(store, id, body) ==
    [i \in DOMAIN store |->
        IF store[i].id = id THEN [store[i] EXCEPT !.body = body] ELSE store[i]]

----------------------------------------------------------------------------
(* Overwrite resolution and write: src/main.rs, main() *)

Matches_IdOnly(mode, identifier, body) ==
    LET d == get_metadata_from_comment(body) IN
    d.tag = "Ok" /\ mode = "Always" /\ identifier = d.id

Matches_AnyManaged(mode, identifier, body) ==
    get_metadata_from_comment(body).tag = "Ok"

Matches_ErrKept(mode, identifier, body) ==
    LET d == get_metadata_from_comment(body) IN
    CASE d.tag = "None" -> FALSE
      [] d.tag = "Ok" -> mode = "Always" \/ identifier = d.id
      [] d.tag = "Err" -> TRUE

\* the closure given to filter
Matches(mode, identifier, body) ==
    LET d == get_metadata_from_comment(body) IN
    CASE d.tag = "None" -> FALSE
      [] d.tag = "Ok" -> mode = "Always" \/ identifier = d.id
      [] d.tag = "Err" -> FALSE

SelectOverride_First(mode, identifier, list) ==
    LET m == SelectSeq(list, LAMBDA c : Matches(mode, identifier, c.body)) IN
    IF m = <<>> THEN NoneU64 ELSE SomeU64(m[1].id)

\* r.into_iter().filter(..).map(|c| c.id).last()
SelectOverride(mode, identifier, list) ==
    LET m == SelectSeq(list, LAMBDA c : Matches(mode, identifier, c.body)) IN
    IF m = <<>> THEN NoneU64 ELSE SomeU64(m[Len(m)].id)

ScanNeeded_Always(mode) == TRUE

\* the else branch of `if config.overwrite_mode == Never`
ScanNeeded(mode) == mode # "Never"

ListOutcome_Swallow(received, mode, identifier, list) ==
    IF received THEN [ok |-> TRUE, val |-> SelectOverride(mode, identifier, list)]
    ELSE [ok |-> TRUE, val |-> NoneU64]

\* list_comments(..).map(..) followed by `match result`
ListOutcome(received, mode, identifier, list) ==
    IF received THEN [ok |-> TRUE, val |-> SelectOverride(mode, identifier, list)]
    ELSE [ok |-> FALSE, val |-> NoneU64]

\* metadata_handler.add_metadata_to_comment(&comment, &config.overwrite_identifier)
EncodedComment(text, identifier) == add_metadata_to_comment(text, identifier)

WriteRequest_CreateOnly(target, pr, body) ==
    [op |-> "create", id |-> 0, pr |-> pr, body |-> body]

\* match maybe_comment_to_override { Some(id) => edit_comment, None => comment }
WriteRequest(target, pr, body) ==
    IF target.some
    THEN [op |-> "edit", id |-> target.val, pr |-> 0, body |-> body]
    ELSE [op |-> "create", id |-> 0, pr |-> pr, body |-> body]

----------------------------------------------------------------------------
(* Inputs of the run *)

Unmanaged == <<"x">>
Managed(identifier) == add_metadata_to_comment(<<"x">>, identifier).val
Malformed == <<"x", "O", "q", "A">>

InitBodies ==
    {Unmanaged, Malformed, Managed(None),
     Managed(SomeStr(<<"A">>)), Managed(SomeStr(<<"B">>))}

\* the thread of PR 1 before the first run, ids in creation order
InitRemotes ==
    {[i \in 1..Len(b) |-> [id |-> i, pr |-> 1, body |-> b[i]]] :
        b \in SeqsUpTo(InitBodies, MaxComments)}

Refs == {"f", "g"}
PRPool == [number : {1, 2}, ref : Refs]

RunListings ==
    {<<>>,
     <<[number |-> 1, ref |-> "f"]>>,
     <<[number |-> 2, ref |-> "g"], [number |-> 1, ref |-> "f"]>>,
     <<[number |-> 2, ref |-> "f"], [number |-> 1, ref |-> "f"]>>}

\* parse_cli: an identifier implies UsingIdentifier
Configs ==
    [mode : {"Never", "Always", "UsingIdentifier"}, id : {None}]
        \cup [mode : {"UsingIdentifier"},
              id : {SomeStr(<<"A">>), SomeStr(<<"B">>)}]

NewTexts == {<<"x">>, <<"x", "O">>}

\* what the remote holds: some open PR has this head ref
HasOpenPr(list, branch) == \E i \in 1..Len(list) : list[i].ref = branch

Unset == ErrU64("unset")
NoResp == [sent |-> FALSE, status |-> 0]
NoEnc == [ok |-> FALSE, val |-> <<>>]

Init ==
    /\ pc = "retrieve"
    /\ \E c \in Configs :
          overwrite_mode = c.mode /\ overwrite_identifier = c.id
    /\ branch_name = "f"
    /\ comment_text \in NewTexts
    /\ comment = <<>>
    /\ prs \in RunListings
    /\ remote \in InitRemotes
    /\ remote0 = Len(remote)
    /\ pr_number = Unset
    /\ listed = <<>>
    /\ maybe_comment_to_override = NoneU64
    /\ log = <<>>
    /\ writes = <<>>
    /\ decodes = 0
    /\ last_resp = NoResp
    /\ runs = 1
    /\ succ = 0
    /\ encoded = NoEnc
    /\ decoded = DecNone

config == <<overwrite_mode, overwrite_identifier, branch_name, comment_text,
            prs, remote0, encoded, decoded>>

\* config.comment_source.retrieve()
Retrieve ==
    /\ pc = "retrieve"
    /\ \E read_ok \in BOOLEAN :
          /\ log' = Append(log, [step |-> "retrieve", ok |-> read_ok])
          /\ IF read_ok
             THEN comment' = comment_text /\ pc' = "resolve"
             ELSE comment' = comment /\ pc' = "failed"
    /\ UNCHANGED <<config, remote, pr_number, listed,
                   maybe_comment_to_override, writes, decodes, last_resp,
                   runs, succ>>

\* config.api.find_pr_for_ref(..)?
ResolvePR ==
    /\ pc = "resolve"
    /\ \E received \in BOOLEAN :
          LET r == find_pr_for_ref(received, prs, branch_name) IN
          /\ log' = Append(log, [step |-> "find_pr",
                                 ok |-> received /\ HasOpenPr(prs, branch_name)])
          /\ pr_number' = r
          /\ pc' = IF r.ok THEN "select" ELSE "failed"
    /\ UNCHANGED <<config, comment, remote, listed,
                   maybe_comment_to_override, writes, decodes, last_resp,
                   runs, succ>>

\* overwrite_mode == Never: None
SkipScan ==
    /\ pc = "select"
    /\ ~ScanNeeded(overwrite_mode)
    /\ maybe_comment_to_override' = NoneU64
    /\ pc' = "write"
    /\ UNCHANGED <<config, comment, remote, pr_number, listed, log, writes,
                   decodes, last_resp, runs, succ>>

\* otherwise: list the comments and keep the last one that matches
ListComments ==
    /\ pc = "select"
    /\ ScanNeeded(overwrite_mode)
    /\ \E received \in BOOLEAN :
          LET list == list_comments(remote, pr_number.val)
              r == ListOutcome(received, overwrite_mode,
                               overwrite_identifier, list)
          IN /\ log' = Append(log, [step |-> "list", ok |-> received])
             /\ listed' = IF received THEN list ELSE <<>>
             /\ decodes' = IF received THEN Len(list) ELSE 0
             /\ maybe_comment_to_override' = r.val
             /\ pc' = IF r.ok THEN "write" ELSE "failed"
    /\ UNCHANGED <<config, comment, remote, pr_number, writes, last_resp,
                   runs, succ>>

\* encode, then edit the selected comment or create a new one
Write ==
    /\ pc = "write"
    /\ LET enc == EncodedComment(comment, overwrite_identifier) IN
       IF ~enc.ok
       THEN /\ pc' = "failed"
            /\ UNCHANGED <<remote, log, writes, last_resp, succ>>
       ELSE \E res \in Responses :
            LET req == WriteRequest(maybe_comment_to_override,
                                    pr_number.val, enc.val)
                ok == IF req.op = "edit" THEN edit_comment_result(res)
                                         ELSE comment_result(res)
            IN /\ log' = Append(log, [step |-> req.op, ok |-> ok])
               /\ writes' = Append(writes, req)
               /\ last_resp' = res
               /\ IF ok
                  THEN /\ remote' = IF req.op = "edit"
                                    THEN RemoteEdit(remote, req.id, req.body)
                                    ELSE RemoteCreate(remote, req.pr, req.body)
                       /\ pc' = "done"
                       /\ succ' = succ + 1
                  ELSE /\ remote' = remote
                       /\ pc' = "failed"
                       /\ succ' = succ
    /\ UNCHANGED <<config, comment, pr_number, listed,
                   maybe_comment_to_override, decodes, runs>>

\* the pipeline invokes the program again with the same arguments
NextRun ==
    /\ pc \in {"done", "failed"}
    /\ runs < MaxRuns
    /\ runs' = runs + 1
    /\ pc' = "retrieve"
    /\ comment' = <<>>
    /\ pr_number' = Unset
    /\ listed' = <<>>
    /\ maybe_comment_to_override' = NoneU64
    /\ log' = <<>>
    /\ writes' = <<>>
    /\ decodes' = 0
    /\ last_resp' = NoResp
    /\ UNCHANGED <<config, remote, succ>>

Next ==
    \/ Retrieve
    \/ ResolvePR
    \/ SkipScan
    \/ ListComments
    \/ Write
    \/ NextRun

Spec == Init /\ [][Next]_vars

----------------------------------------------------------------------------
(* PR resolution over every listing up to MaxPRs entries *)

InitPR ==
    /\ pc = "pr_resolve"
    /\ prs \in SeqsUpTo(PRPool, MaxPRs)
    /\ branch_name \in Refs
    /\ pr_number = Unset
    /\ overwrite_mode = "Always"
    /\ overwrite_identifier = None
    /\ comment_text = <<>>
    /\ comment = <<>>
    /\ remote = <<>>
    /\ remote0 = 0
    /\ listed = <<>>
    /\ maybe_comment_to_override = NoneU64
    /\ log = <<>>
    /\ writes = <<>>
    /\ decodes = 0
    /\ last_resp = NoResp
    /\ runs = 1
    /\ succ = 0
    /\ encoded = NoEnc
    /\ decoded = DecNone

ResolveListing ==
    /\ pc = "pr_resolve"
    /\ \E received \in BOOLEAN :
          /\ pr_number' = find_pr_for_branch(received, prs, branch_name)
          /\ last_resp' = IF received THEN OkResponse ELSE NoResp
    /\ pc' = "pr_done"
    /\ UNCHANGED <<config, comment, remote, listed,
                   maybe_comment_to_override, log, writes, decodes,
                   runs, succ>>

NextPR == ResolveListing

SpecPR == InitPR /\ [][NextPR]_vars

----------------------------------------------------------------------------
(* Codec over every body up to MaxBodyLen symbols and every identifier *)

CodecIds == {None} \cup {SomeStr(s) : s \in SeqsUpTo(IdChars, MaxIdLen)}

InitCodec ==
    /\ pc = "codec_encode"
    /\ comment_text \in SeqsUpTo(Tokens, MaxBodyLen)
    /\ overwrite_identifier \in CodecIds
    /\ encoded = NoEnc
    /\ decoded = DecNone
    /\ overwrite_mode = "Always"
    /\ branch_name = "f"
    /\ prs = <<>>
    /\ pr_number = Unset
    /\ comment = <<>>
    /\ remote = <<>>
    /\ remote0 = 0
    /\ listed = <<>>
    /\ maybe_comment_to_override = NoneU64
    /\ log = <<>>
    /\ writes = <<>>
    /\ decodes = 0
    /\ last_resp = NoResp
    /\ runs = 1
    /\ succ = 0

Encode ==
    /\ pc = "codec_encode"
    /\ encoded' = EncodedComment(comment_text, overwrite_identifier)
    /\ pc' = "codec_decode"
    /\ UNCHANGED <<overwrite_mode, overwrite_identifier, branch_name,
                   comment_text, comment, prs, remote, pr_number, listed,
                   maybe_comment_to_override, log, writes, decodes,
                   last_resp, runs, succ, remote0, decoded>>

Decode ==
    /\ pc = "codec_decode"
    /\ decoded' = get_metadata_from_comment(encoded.val)
    /\ pc' = "codec_done"
    /\ UNCHANGED <<overwrite_mode, overwrite_identifier, branch_name,
                   comment_text, comment, prs, remote, pr_number, listed,
                   maybe_comment_to_override, log, writes, decodes,
                   last_resp, runs, succ, remote0, encoded>>

NextCodec ==
    \/ Encode
    \/ Decode

SpecCodec == InitCodec /\ [][NextCodec]_vars

----------------------------------------------------------------------------
(* Properties *)

Last(l) == l[Len(l)]
Steps(l) == [i \in DOMAIN l |-> l[i].step]
StepTaken(name) == \E i \in 1..Len(log) : log[i].step = name

\* this run received the comment listing
Scanned == \E i \in 1..Len(log) : log[i].step = "list" /\ log[i].ok

WellFormedAt(i) == get_metadata_from_comment(listed[i].body).tag = "Ok"
MalformedAt(i) == get_metadata_from_comment(listed[i].body).tag = "Err"
IdentifierAt(i) == get_metadata_from_comment(listed[i].body).id

\* the id of the comment at the greatest position of I, nothing if I is empty
LastOf(I) ==
    IF I = {} THEN NoneU64
    ELSE SomeU64(listed[CHOOSE i \in I : \A j \in I : j <= i].id)

\* C1: with policy Always the run selects the id of the last listed comment
\* whose body decodes to a well-formed marker, whatever its identifier, and
\* selects nothing when no listed comment does (the empty list included).
C1_AlwaysSelectsLastManaged ==
    (Scanned /\ overwrite_mode = "Always") =>
        maybe_comment_to_override =
            LastOf({i \in 1..Len(listed) : WellFormedAt(i)})

C1_Witness ==
    /\ Scanned
    /\ overwrite_mode = "Always"
    /\ Len(listed) = 3
    /\ ~WellFormedAt(1)
    /\ WellFormedAt(2) /\ WellFormedAt(3)
    /\ IdentifierAt(2) # IdentifierAt(3)
    /\ maybe_comment_to_override = SomeU64(listed[3].id)

\* C2: with policy UsingIdentifier the candidates are exactly the comments
\* whose marker decodes and whose identifier equals the configured one (two
\* absent identifiers are equal); the last candidate is selected, a managed
\* comment with another identifier never is.
C2_IdentifierSelectsLastEqual ==
    (Scanned /\ overwrite_mode = "UsingIdentifier") =>
        maybe_comment_to_override =
            LastOf({i \in 1..Len(listed) :
                      WellFormedAt(i) /\ IdentifierAt(i) = overwrite_identifier})

C2_Witness ==
    /\ Scanned
    /\ overwrite_mode = "UsingIdentifier"
    /\ Len(listed) = 3
    /\ WellFormedAt(1) /\ IdentifierAt(1) = overwrite_identifier
    /\ WellFormedAt(2) /\ IdentifierAt(2) # overwrite_identifier
    /\ MalformedAt(3)
    /\ maybe_comment_to_override = SomeU64(listed[1].id)

\* C3: with policy Never the run never lists the comments, never decodes a
\* body, selects nothing, and its only write is a create.
C3_NeverSkipsScan ==
    overwrite_mode = "Never" =>
        /\ ~StepTaken("list")
        /\ decodes = 0
        /\ maybe_comment_to_override = NoneU64
        /\ ~StepTaken("edit")
        /\ pc = "done" => Last(log).step = "create"

C3_Witness ==
    /\ overwrite_mode = "Never"
    /\ pc = "done"
    /\ runs = 1
    /\ pr_number.val = 1
    /\ \E i \in 1..remote0 :
          get_metadata_from_comment(remote[i].body).tag = "Ok"
    /\ Len(remote) = remote0 + 1

\* C4: a run issues at most one write and a successful run exactly one: an
\* edit of the selected id if one was selected, else a create on the
\* resolved PR; never both and never two edits.
C4_SingleWrite ==
    /\ Len(writes) <= 1
    /\ pc = "done" => Len(writes) = 1
    /\ Len(writes) = 1 =>
          IF maybe_comment_to_override.some
          THEN /\ writes[1].op = "edit"
               /\ writes[1].id = maybe_comment_to_override.val
          ELSE /\ writes[1].op = "create"
               /\ writes[1].pr = pr_number.val
    /\ Len(SelectSeq(log, LAMBDA e : e.step \in {"create", "edit"}))
          = Len(writes)

C4_Witness ==
    /\ pc = "done"
    /\ Cardinality({i \in 1..Len(listed) :
                      Matches(overwrite_mode, overwrite_identifier,
                              listed[i].body)}) >= 2
    /\ Len(writes) = 1
    /\ writes[1].op = "edit"

WithoutMalformed(list) ==
    SelectSeq(list, LAMBDA c : get_metadata_from_comment(c.body).tag # "Err")

\* C5: a comment with a malformed marker is never selected, does not end
\* the run, and does not change the selection: the selection is the one
\* made on the listing without the malformed comments.
C5_MalformedSkipped ==
    /\ Scanned =>
          /\ maybe_comment_to_override =
                SelectOverride(overwrite_mode, overwrite_identifier,
                               WithoutMalformed(listed))
          /\ \A i \in 1..Len(listed) :
                MalformedAt(i) =>
                    maybe_comment_to_override # SomeU64(listed[i].id)
          /\ pc # "failed" \/ Last(log).step # "list"
    /\ \A i \in 1..Len(log) :
          (log[i].step = "list" /\ log[i].ok) =>
              (i < Len(log) \/ pc = "write")

C5_Witness ==
    /\ Scanned
    /\ pc = "write"
    /\ Len(listed) = 3
    /\ WellFormedAt(1)
    /\ MalformedAt(2)
    /\ MalformedAt(3)
    /\ maybe_comment_to_override = SomeU64(listed[1].id)

\* C6: over the open-PR listing, resolution returns the number of the first
\* entry whose head ref is the requested one, also when several entries
\* have it, and fails exactly when no entry has it.
C6_FirstMatchingPr ==
    (pc = "pr_done" /\ last_resp.sent) =>
        LET M == {i \in 1..Len(prs) : prs[i].ref = branch_name} IN
        IF M = {}
        THEN ~pr_number.ok /\ pr_number.err = "Cant find dude"
        ELSE /\ pr_number.ok
             /\ pr_number.val = prs[CHOOSE i \in M : \A j \in M : i <= j].number

C6_Witness ==
    /\ pc = "pr_done"
    /\ last_resp.sent
    /\ Len(prs) = 3
    /\ prs[1].ref # branch_name
    /\ prs[2].ref = branch_name
    /\ prs[3].ref = branch_name
    /\ prs[2].number # prs[3].number
    /\ pr_number = OkU64(prs[2].number)

Expected ==
    IF overwrite_mode = "Never"
    THEN <<"retrieve", "find_pr", "write">>
    ELSE <<"retrieve", "find_pr", "list", "write">>

Normalised(l) ==
    [i \in DOMAIN l |->
        IF l[i].step \in {"create", "edit"} THEN "write" ELSE l[i].step]

\* C7: the steps of a run are taken in the order read, resolve, list (not
\* with Never), write, each at most once; a step that fails is the last
\* step of the run, so no write follows a failed read, resolution or
\* listing, and no create follows a failed edit.
C7_FailFastOrdered ==
    /\ Len(log) <= Len(Expected)
    /\ Normalised(log) = SubSeq(Expected, 1, Len(log))
    /\ \A i \in 1..Len(log) :
          ~log[i].ok => (i = Len(log) /\ pc = "failed")
    /\ (\E i \in 1..Len(log) :
          ~log[i].ok /\ log[i].step \in {"retrieve", "find_pr", "list"})
          => writes = <<>>
    /\ pc = "done" => \A i \in 1..Len(log) : log[i].ok

C7_Witness ==
    /\ pc = "failed"
    /\ Steps(log) = <<"retrieve", "find_pr", "list">>
    /\ ~log[3].ok
    /\ \E i \in 1..Len(remote) :
          get_metadata_from_comment(remote[i].body).tag = "Ok"
    /\ writes = <<>>

C9_CreateOnly201 ==
    (Len(writes) = 1 /\ writes[1].op = "create") =>
        /\ pc \in {"done", "failed"}
        /\ pc = "done" <=> (last_resp.sent /\ last_resp.status = 201)

C9_Witness ==
    /\ Len(writes) = 1
    /\ writes[1].op = "create"
    /\ last_resp.sent
    /\ last_resp.status = 200
    /\ pc = "failed"

Thread == list_comments(remote, FindPr(prs, branch_name).val)

\* C10: with policy Always or UsingIdentifier and no other writer, once a
\* run has succeeded the thread holds a comment the policy matches, every
\* later successful run edits instead of creating, and the runs together
\* add at most one comment.
C10_NoPileUp ==
    overwrite_mode # "Never" =>
        /\ Len(remote) <= remote0 + 1
        /\ (pc = "done" /\ succ >= 2) => Last(log).step = "edit"
        /\ succ >= 1 =>
              \E i \in 1..Len(Thread) :
                 LET d == get_metadata_from_comment(Thread[i].body) IN
                 /\ d.tag = "Ok"
                 /\ overwrite_mode = "Always" \/ d.id = overwrite_identifier

C10_Witness ==
    /\ overwrite_mode = "UsingIdentifier"
    /\ overwrite_identifier.some
    /\ succ >= 2
    /\ pc = "done"
    /\ Last(log).step = "edit"
    /\ Len(remote) = remote0 + 1

====
